---------------------------- MODULE Spec2Model ----------------------------
(***************************************************************************)
(* Malspy backend: APK feature extraction (app/analyzer.py), the three     *)
(* analysis endpoints and the process-wide classifier (app/main.py,        *)
(* app/ml_model.py), scoped temporary storage (app/utils.py) and the       *)
(* alternative normalised risk model (app/risk_model.py).                  *)
(*                                                                         *)
(* Strings are Python str values.  `Chars` gives the code points of every  *)
(* string the model uses, so that substring tests (`x in s`), `lower()`    *)
(* and the ordering used by `sorted` are computed on the characters.       *)
(*                                                                         *)
(* Scores are fixed-point: One stands for 1.0.  Every weight and threshold *)
(* of the code is an exact multiple of 1/One.  The code computes in binary *)
(* floating point: for the endpoints' weighted sums (Policy B) the float   *)
(* comparisons pick the same bucket as the exact ones for every count; in  *)
(* the risk model (Policy C) a float sum can fall one rounding step below  *)
(* the exact value (0.12 and 0.68 average to 0.39999999999999997), and the *)
(* code then takes its verdict from that float, as the model takes it from *)
(* the exact value.                                                        *)
(***************************************************************************)
EXTENDS Integers, Sequences, FiniteSets, TLC

\* Bound: the number of items (permissions, intent-filter keys, URL and IP
\* matches, classes) a package holds in total.
MaxItems == 2

One == 60 * 100
Pct(n) == n * 60

Chars(s) ==
    CASE s = "java/lang/Runtime;->exec" ->
           <<106, 97, 118, 97, 47, 108, 97, 110, 103, 47, 82, 117, 110, 116, 105, 109, 101,
             59, 45, 62, 101, 120, 101, 99>>
      [] s = "dalvik/system/DexClassLoader;-><init>" ->
           <<100, 97, 108, 118, 105, 107, 47, 115, 121, 115, 116, 101, 109, 47, 68, 101,
             120, 67, 108, 97, 115, 115, 76, 111, 97, 100, 101, 114, 59, 45, 62, 60, 105,
             110, 105, 116, 62>>
      [] s = "java/lang/reflect/Method;->invoke" ->
           <<106, 97, 118, 97, 47, 108, 97, 110, 103, 47, 114, 101, 102, 108, 101, 99, 116,
             47, 77, 101, 116, 104, 111, 100, 59, 45, 62, 105, 110, 118, 111, 107, 101>>
      [] s = "android/telephony/SmsManager;->sendTextMessage" ->
           <<97, 110, 100, 114, 111, 105, 100, 47, 116, 101, 108, 101, 112, 104, 111, 110,
             121, 47, 83, 109, 115, 77, 97, 110, 97, 103, 101, 114, 59, 45, 62, 115, 101,
             110, 100, 84, 101, 120, 116, 77, 101, 115, 115, 97, 103, 101>>
      [] s = "javax/crypto/Cipher;->init" ->
           <<106, 97, 118, 97, 120, 47, 99, 114, 121, 112, 116, 111, 47, 67, 105, 112, 104,
             101, 114, 59, 45, 62, 105, 110, 105, 116>>
      [] s = "java/net/HttpURLConnection;->connect" ->
           <<106, 97, 118, 97, 47, 110, 101, 116, 47, 72, 116, 116, 112, 85, 82, 76, 67,
             111, 110, 110, 101, 99, 116, 105, 111, 110, 59, 45, 62, 99, 111, 110, 110,
             101, 99, 116>>
      [] s = "okhttp3/OkHttpClient;->newCall" ->
           <<111, 107, 104, 116, 116, 112, 51, 47, 79, 107, 72, 116, 116, 112, 67, 108,
             105, 101, 110, 116, 59, 45, 62, 110, 101, 119, 67, 97, 108, 108>>
      [] s = "org/apache/http/client/HttpClient;->execute" ->
           <<111, 114, 103, 47, 97, 112, 97, 99, 104, 101, 47, 104, 116, 116, 112, 47, 99,
             108, 105, 101, 110, 116, 47, 72, 116, 116, 112, 67, 108, 105, 101, 110, 116,
             59, 45, 62, 101, 120, 101, 99, 117, 116, 101>>
      [] s = "java/net/URL;->openConnection" ->
           <<106, 97, 118, 97, 47, 110, 101, 116, 47, 85, 82, 76, 59, 45, 62, 111, 112,
             101, 110, 67, 111, 110, 110, 101, 99, 116, 105, 111, 110>>
      [] s = "Ljava/lang/Runtime;->exec" ->
           <<76, 106, 97, 118, 97, 47, 108, 97, 110, 103, 47, 82, 117, 110, 116, 105, 109,
             101, 59, 45, 62, 101, 120, 101, 99>>
      [] s = "Ldalvik/system/DexClassLoader;-><init>" ->
           <<76, 100, 97, 108, 118, 105, 107, 47, 115, 121, 115, 116, 101, 109, 47, 68,
             101, 120, 67, 108, 97, 115, 115, 76, 111, 97, 100, 101, 114, 59, 45, 62, 60,
             105, 110, 105, 116, 62>>
      [] s = "Ljava/lang/reflect/Method;->invoke" ->
           <<76, 106, 97, 118, 97, 47, 108, 97, 110, 103, 47, 114, 101, 102, 108, 101, 99,
             116, 47, 77, 101, 116, 104, 111, 100, 59, 45, 62, 105, 110, 118, 111, 107,
             101>>
      [] s = "Landroid/telephony/SmsManager;->sendTextMessage" ->
           <<76, 97, 110, 100, 114, 111, 105, 100, 47, 116, 101, 108, 101, 112, 104, 111,
             110, 121, 47, 83, 109, 115, 77, 97, 110, 97, 103, 101, 114, 59, 45, 62, 115,
             101, 110, 100, 84, 101, 120, 116, 77, 101, 115, 115, 97, 103, 101>>
      [] s = "Ljavax/crypto/Cipher;->init" ->
           <<76, 106, 97, 118, 97, 120, 47, 99, 114, 121, 112, 116, 111, 47, 67, 105, 112,
             104, 101, 114, 59, 45, 62, 105, 110, 105, 116>>
      [] s = "Ljava/net/HttpURLConnection;->connect" ->
           <<76, 106, 97, 118, 97, 47, 110, 101, 116, 47, 72, 116, 116, 112, 85, 82, 76,
             67, 111, 110, 110, 101, 99, 116, 105, 111, 110, 59, 45, 62, 99, 111, 110, 110,
             101, 99, 116>>
      [] s = "Lokhttp3/OkHttpClient;->newCall" ->
           <<76, 111, 107, 104, 116, 116, 112, 51, 47, 79, 107, 72, 116, 116, 112, 67, 108,
             105, 101, 110, 116, 59, 45, 62, 110, 101, 119, 67, 97, 108, 108>>
      [] s = "Lorg/apache/http/client/HttpClient;->execute" ->
           <<76, 111, 114, 103, 47, 97, 112, 97, 99, 104, 101, 47, 104, 116, 116, 112, 47,
             99, 108, 105, 101, 110, 116, 47, 72, 116, 116, 112, 67, 108, 105, 101, 110,
             116, 59, 45, 62, 101, 120, 101, 99, 117, 116, 101>>
      [] s = "Ljava/net/URL;->openConnection" ->
           <<76, 106, 97, 118, 97, 47, 110, 101, 116, 47, 85, 82, 76, 59, 45, 62, 111, 112,
             101, 110, 67, 111, 110, 110, 101, 99, 116, 105, 111, 110>>
      [] s = "Ljava/lang/Object;-><init>" ->
           <<76, 106, 97, 118, 97, 47, 108, 97, 110, 103, 47, 79, 98, 106, 101, 99, 116,
             59, 45, 62, 60, 105, 110, 105, 116, 62>>
      [] s = "android.permission.SEND_SMS" ->
           <<97, 110, 100, 114, 111, 105, 100, 46, 112, 101, 114, 109, 105, 115, 115, 105,
             111, 110, 46, 83, 69, 78, 68, 95, 83, 77, 83>>
      [] s = "android.permission.RECEIVE_SMS" ->
           <<97, 110, 100, 114, 111, 105, 100, 46, 112, 101, 114, 109, 105, 115, 115, 105,
             111, 110, 46, 82, 69, 67, 69, 73, 86, 69, 95, 83, 77, 83>>
      [] s = "android.permission.READ_SMS" ->
           <<97, 110, 100, 114, 111, 105, 100, 46, 112, 101, 114, 109, 105, 115, 115, 105,
             111, 110, 46, 82, 69, 65, 68, 95, 83, 77, 83>>
      [] s = "android.permission.CALL_PHONE" ->
           <<97, 110, 100, 114, 111, 105, 100, 46, 112, 101, 114, 109, 105, 115, 115, 105,
             111, 110, 46, 67, 65, 76, 76, 95, 80, 72, 79, 78, 69>>
      [] s = "android.permission.READ_CONTACTS" ->
           <<97, 110, 100, 114, 111, 105, 100, 46, 112, 101, 114, 109, 105, 115, 115, 105,
             111, 110, 46, 82, 69, 65, 68, 95, 67, 79, 78, 84, 65, 67, 84, 83>>
      [] s = "android.permission.WRITE_CONTACTS" ->
           <<97, 110, 100, 114, 111, 105, 100, 46, 112, 101, 114, 109, 105, 115, 115, 105,
             111, 110, 46, 87, 82, 73, 84, 69, 95, 67, 79, 78, 84, 65, 67, 84, 83>>
      [] s = "android.permission.READ_CALL_LOG" ->
           <<97, 110, 100, 114, 111, 105, 100, 46, 112, 101, 114, 109, 105, 115, 115, 105,
             111, 110, 46, 82, 69, 65, 68, 95, 67, 65, 76, 76, 95, 76, 79, 71>>
      [] s = "android.permission.WRITE_CALL_LOG" ->
           <<97, 110, 100, 114, 111, 105, 100, 46, 112, 101, 114, 109, 105, 115, 115, 105,
             111, 110, 46, 87, 82, 73, 84, 69, 95, 67, 65, 76, 76, 95, 76, 79, 71>>
      [] s = "android.permission.RECEIVE_BOOT_COMPLETED" ->
           <<97, 110, 100, 114, 111, 105, 100, 46, 112, 101, 114, 109, 105, 115, 115, 105,
             111, 110, 46, 82, 69, 67, 69, 73, 86, 69, 95, 66, 79, 79, 84, 95, 67, 79, 77,
             80, 76, 69, 84, 69, 68>>
      [] s = "android.permission.SYSTEM_ALERT_WINDOW" ->
           <<97, 110, 100, 114, 111, 105, 100, 46, 112, 101, 114, 109, 105, 115, 115, 105,
             111, 110, 46, 83, 89, 83, 84, 69, 77, 95, 65, 76, 69, 82, 84, 95, 87, 73, 78,
             68, 79, 87>>
      [] s = "android.permission.REQUEST_INSTALL_PACKAGES" ->
           <<97, 110, 100, 114, 111, 105, 100, 46, 112, 101, 114, 109, 105, 115, 115, 105,
             111, 110, 46, 82, 69, 81, 85, 69, 83, 84, 95, 73, 78, 83, 84, 65, 76, 76, 95,
             80, 65, 67, 75, 65, 71, 69, 83>>
      [] s = "android.permission.WRITE_SETTINGS" ->
           <<97, 110, 100, 114, 111, 105, 100, 46, 112, 101, 114, 109, 105, 115, 115, 105,
             111, 110, 46, 87, 82, 73, 84, 69, 95, 83, 69, 84, 84, 73, 78, 71, 83>>
      [] s = "android.permission.READ_PHONE_STATE" ->
           <<97, 110, 100, 114, 111, 105, 100, 46, 112, 101, 114, 109, 105, 115, 115, 105,
             111, 110, 46, 82, 69, 65, 68, 95, 80, 72, 79, 78, 69, 95, 83, 84, 65, 84, 69>>
      [] s = "android.permission.RECORD_AUDIO" ->
           <<97, 110, 100, 114, 111, 105, 100, 46, 112, 101, 114, 109, 105, 115, 115, 105,
             111, 110, 46, 82, 69, 67, 79, 82, 68, 95, 65, 85, 68, 73, 79>>
      [] s = "android.permission.CAMERA" ->
           <<97, 110, 100, 114, 111, 105, 100, 46, 112, 101, 114, 109, 105, 115, 115, 105,
             111, 110, 46, 67, 65, 77, 69, 82, 65>>
      [] s = "android.permission.INTERNET" ->
           <<97, 110, 100, 114, 111, 105, 100, 46, 112, 101, 114, 109, 105, 115, 115, 105,
             111, 110, 46, 73, 78, 84, 69, 82, 78, 69, 84>>
      [] s = "SMS" ->
           <<83, 77, 83>>
      [] s = "CALL" ->
           <<67, 65, 76, 76>>
      [] s = "INTERNET" ->
           <<73, 78, 84, 69, 82, 78, 69, 84>>
      [] s = "RECORD_AUDIO" ->
           <<82, 69, 67, 79, 82, 68, 95, 65, 85, 68, 73, 79>>
      [] s = "CAMERA" ->
           <<67, 65, 77, 69, 82, 65>>
      [] s = "Http" ->
           <<72, 116, 116, 112>>
      [] s = "URL;" ->
           <<85, 82, 76, 59>>
      [] s = "OkHttp" ->
           <<79, 107, 72, 116, 116, 112>>
      [] s = "http" ->
           <<104, 116, 116, 112>>
      [] s = "SmsManager" ->
           <<83, 109, 115, 77, 97, 110, 97, 103, 101, 114>>
      [] s = "BOOT_COMPLETED" ->
           <<66, 79, 79, 84, 95, 67, 79, 77, 80, 76, 69, 84, 69, 68>>
      [] s = "android.intent.action.BOOT_COMPLETED" ->
           <<97, 110, 100, 114, 111, 105, 100, 46, 105, 110, 116, 101, 110, 116, 46, 97,
             99, 116, 105, 111, 110, 46, 66, 79, 79, 84, 95, 67, 79, 77, 80, 76, 69, 84,
             69, 68>>
      [] s = "android.intent.action.MAIN" ->
           <<97, 110, 100, 114, 111, 105, 100, 46, 105, 110, 116, 101, 110, 116, 46, 97,
             99, 116, 105, 111, 110, 46, 77, 65, 73, 78>>
      [] s = "http://a.example/x" ->
           <<104, 116, 116, 112, 58, 47, 47, 97, 46, 101, 120, 97, 109, 112, 108, 101, 47,
             120>>
      [] s = "https://b.example/y" ->
           <<104, 116, 116, 112, 115, 58, 47, 47, 98, 46, 101, 120, 97, 109, 112, 108, 101,
             47, 121>>
      [] s = "10.0.0.1" ->
           <<49, 48, 46, 48, 46, 48, 46, 49>>
      [] s = "192.168.0.1" ->
           <<49, 57, 50, 46, 49, 54, 56, 46, 48, 46, 49>>
      [] s = "execve" ->
           <<101, 120, 101, 99, 118, 101>>
      [] s = "chmod" ->
           <<99, 104, 109, 111, 100>>
      [] s = "chown" ->
           <<99, 104, 111, 119, 110>>
      [] s = "ptrace" ->
           <<112, 116, 114, 97, 99, 101>>
      [] s = "kill" ->
           <<107, 105, 108, 108>>
      [] s = "http://" ->
           <<104, 116, 116, 112, 58, 47, 47>>
      [] s = "https://" ->
           <<104, 116, 116, 112, 115, 58, 47, 47>>
      [] s = "ftp://" ->
           <<102, 116, 112, 58, 47, 47>>

Range(s) == {s[i] : i \in 1..Len(s)}
Min(a, b) == IF a < b THEN a ELSE b
Max(a, b) == IF a < b THEN b ELSE a

\* str.lower() on code points (ASCII letters).
Lower(cs) == [i \in 1..Len(cs) |-> IF cs[i] >= 65 /\ cs[i] <= 90 THEN cs[i] + 32 ELSE cs[i]]

\* `n in h` for two str values given as code points.
SeqContains(n, h) ==
    \E i \in 0..(Len(h) - Len(n)) : \A j \in 1..Len(n) : h[i + j] = n[j]

\* Every string of the model.
AllStrings ==
    { "java/lang/Runtime;->exec", "dalvik/system/DexClassLoader;-><init>",
      "java/lang/reflect/Method;->invoke",
      "android/telephony/SmsManager;->sendTextMessage", "javax/crypto/Cipher;->init",
      "java/net/HttpURLConnection;->connect", "okhttp3/OkHttpClient;->newCall",
      "org/apache/http/client/HttpClient;->execute", "java/net/URL;->openConnection",
      "Ljava/lang/Runtime;->exec", "Ldalvik/system/DexClassLoader;-><init>",
      "Ljava/lang/reflect/Method;->invoke",
      "Landroid/telephony/SmsManager;->sendTextMessage", "Ljavax/crypto/Cipher;->init",
      "Ljava/net/HttpURLConnection;->connect", "Lokhttp3/OkHttpClient;->newCall",
      "Lorg/apache/http/client/HttpClient;->execute", "Ljava/net/URL;->openConnection",
      "Ljava/lang/Object;-><init>", "android.permission.SEND_SMS",
      "android.permission.RECEIVE_SMS", "android.permission.READ_SMS",
      "android.permission.CALL_PHONE", "android.permission.READ_CONTACTS",
      "android.permission.WRITE_CONTACTS", "android.permission.READ_CALL_LOG",
      "android.permission.WRITE_CALL_LOG", "android.permission.RECEIVE_BOOT_COMPLETED",
      "android.permission.SYSTEM_ALERT_WINDOW",
      "android.permission.REQUEST_INSTALL_PACKAGES", "android.permission.WRITE_SETTINGS",
      "android.permission.READ_PHONE_STATE", "android.permission.RECORD_AUDIO",
      "android.permission.CAMERA", "android.permission.INTERNET", "SMS", "CALL",
      "INTERNET", "RECORD_AUDIO", "CAMERA", "Http", "URL;", "OkHttp", "http", "SmsManager",
      "BOOT_COMPLETED", "android.intent.action.BOOT_COMPLETED",
      "android.intent.action.MAIN", "http://a.example/x", "https://b.example/y",
      "10.0.0.1", "192.168.0.1", "execve", "chmod", "chown", "ptrace", "kill", "http://",
      "https://", "ftp://" }

\* The pairs (n, h) with `n in h`, and those with `n in h.lower()`.
ContainsTable ==
    {nh \in AllStrings \X AllStrings : SeqContains(Chars(nh[1]), Chars(nh[2]))}
LowerContainsTable ==
    {nh \in AllStrings \X AllStrings : SeqContains(Chars(nh[1]), Lower(Chars(nh[2])))}

\* `needle in hay` and `needle in hay.lower()` for two strings.
In(needle, hay) == <<needle, hay>> \in ContainsTable
InLower(needle, hay) == <<needle, hay>> \in LowerContainsTable

\* Python's str ordering: code point by code point, a proper prefix first.
LexLess(a, b) ==
    LET n == Min(Len(a), Len(b))
        same(k) == \A j \in 1..k : a[j] = b[j]
    IN  \/ \E k \in 1..n : same(k - 1) /\ a[k] < b[k]
        \/ same(n) /\ Len(a) < Len(b)

\* The pairs (s, t) with s < t.
LessTable == {st \in AllStrings \X AllStrings : LexLess(Chars(st[1]), Chars(st[2]))}

StrLess(s, t) == <<s, t>> \in LessTable

\* list.insert into an ascending list, after the entries not greater than x.
Insert(x, s) ==
    LET k == Cardinality({i \in 1..Len(s) : ~StrLess(x, s[i])})
    IN  SubSeq(s, 1, k) \o <<x>> \o SubSeq(s, k + 1, Len(s))

\* sorted(xs) for a list xs: ascending, duplicates kept.
RECURSIVE sorted_keeping_duplicates(_)
sorted_keeping_duplicates(xs) ==
    IF xs = <<>> THEN <<>> ELSE Insert(Head(xs), sorted_keeping_duplicates(Tail(xs)))

\* sorted(S) for a set S: ascending, each member once.
RECURSIVE sorted(_)
sorted(S) ==
    IF S = {} THEN <<>>
    ELSE LET x == CHOOSE y \in S : TRUE IN Insert(x, sorted(S \ {x}))

\* sorted(set(xs)): the idiom of the feature records.
sorted_set(xs) == sorted(Range(xs))

(***************************************************************************)
(* app/analyzer.py: signature table and bytecode cross-reference scan      *)
(***************************************************************************)
SUSPICIOUS_API_SUBSTRINGS ==
    << "java/lang/Runtime;->exec",
       "dalvik/system/DexClassLoader;-><init>",
       "java/lang/reflect/Method;->invoke",
       "android/telephony/SmsManager;->sendTextMessage",
       "javax/crypto/Cipher;->init",
       "java/net/HttpURLConnection;->connect",
       "okhttp3/OkHttpClient;->newCall",
       "org/apache/http/client/HttpClient;->execute",
       "java/net/URL;->openConnection" >>

\* The needles of a table that one call target f"{s.class_name}->{s.name}"
\* contains.
needles_in(called, table) == {needle \in Range(table) : In(needle, called)}

\* The branch of dynamic_features that files a matched needle under net_hits.
is_network_needle(needle) ==
    \/ In("Http", needle)
    \/ In("URL;", needle)
    \/ In("OkHttp", needle)
    \/ InLower("http", needle)

(***************************************************************************)
(* A bytecode index dx is a list of classes.  A class is its list of       *)
(* methods and whether get_methods() raises once these were enumerated; a  *)
(* method is the list of its outgoing call targets and whether             *)
(* get_xref_to() raises once these were enumerated.                        *)
(***************************************************************************)
Method(xrefs, raises) == [xrefs |-> xrefs, raises |-> raises]
Class(methods, raises) == [methods |-> methods, raises |-> raises]

\* hits.add(needle) over the calls one method yields; the inner
\* `except Exception: continue` keeps them and goes on to the next method.
method_hits(method, table) ==
    UNION {needles_in(method.xrefs[i], table) : i \in 1..Len(method.xrefs)}

class_hits(cls, table) ==
    UNION {method_hits(cls.methods[i], table) : i \in 1..Len(cls.methods)}

\* The loop over dx.get_classes() shared by _match_suspicious_apis and
\* dynamic_features: a raise of cls.get_methods() is not caught by the inner
\* try, reaches the outer `except Exception: pass`, and ends the loop.
RECURSIVE scan_hits(_, _)
scan_hits(classes, table) ==
    IF classes = <<>> THEN {}
    ELSE LET cls == Head(classes)
         IN  class_hits(cls, table) \cup
             (IF cls.raises THEN {} ELSE scan_hits(Tail(classes), table))

match_suspicious_apis(dx) == sorted(scan_hits(dx, SUSPICIOUS_API_SUBSTRINGS))

net_hits(dx) == {n \in scan_hits(dx, SUSPICIOUS_API_SUBSTRINGS) : is_network_needle(n)}
sys_hits(dx) == {n \in scan_hits(dx, SUSPICIOUS_API_SUBSTRINGS) : ~is_network_needle(n)}

(***************************************************************************)
(* A package as AnalyzeAPK presents it.  valid: whether AnalyzeAPK opens   *)
(* the container.  permissions: a.get_permissions().  filter_keys: the     *)
(* keys of the receiver intent filters read before filters_raise, a raise  *)
(* of a.get_intent_filters or of the iteration over it.  dx: the bytecode  *)
(* index.  urls, ips: the matches URL_RE.finditer and IP_RE.finditer yield *)
(* over the raw bytes, in the order met.                                   *)
(***************************************************************************)
Package(valid, permissions, filter_keys, filters_raise, dx, urls, ips) ==
    [given |-> TRUE, valid |-> valid, permissions |-> permissions,
     filter_keys |-> filter_keys, filters_raise |-> filters_raise, dx |-> dx,
     urls |-> urls, ips |-> ips]

\* A container AnalyzeAPK cannot open.
CorruptPackage == Package(FALSE, <<>>, <<>>, FALSE, <<>>, <<>>, <<>>)

\* No package parsed yet.
NoPackage == [CorruptPackage EXCEPT !.given = FALSE]

NoFeatures ==
    [present |-> FALSE, permissions |-> <<>>, intents |-> <<>>, suspicious_apis |-> <<>>]

\* static_features, once AnalyzeAPK has returned.  The try around the
\* intent-filter loop keeps whatever intents.extend added before a raise.
static_features(pkg) ==
    [present |-> TRUE,
     permissions |-> sorted_set(pkg.permissions),
     intents |-> sorted_set(pkg.filter_keys),
     suspicious_apis |-> match_suspicious_apis(pkg.dx)]

NoLogs ==
    [kind |-> "none", network_calls |-> <<>>, network_ips |-> <<>>, system_calls |-> <<>>,
     sms_used |-> FALSE, n_network_calls |-> 0, n_system_indicators |-> 0]

\* `len(sys_hits) or len(net_hits)`
len_or(a, b) == IF a # 0 THEN a ELSE b

\* dynamic_features with sms_used taken from the matched signatures alone.
dynamic_features_sms_from_hits(pkg) ==
    IF ~pkg.valid
    THEN [NoLogs EXCEPT !.kind = "error"]
    ELSE LET net == net_hits(pkg.dx)
             sys == sys_hits(pkg.dx)
             urls == Range(pkg.urls)
             ips == Range(pkg.ips)
         IN  [kind |-> "record",
              network_calls |-> sorted(urls),
              network_ips |-> sorted(ips),
              system_calls |-> IF sys # {} THEN sorted(sys) ELSE sorted(net),
              sms_used |-> \E s \in net \cup sys :
                              In("SmsManager", s),
              n_network_calls |-> Cardinality(urls),
              n_system_indicators |-> len_or(Cardinality(sys), Cardinality(net))]

\* dynamic_features: the dict {"error": ...} when AnalyzeAPK raises, the
\* dynamic record otherwise.
dynamic_features(pkg) ==
    IF ~pkg.valid
    THEN [NoLogs EXCEPT !.kind = "error"]
    ELSE LET net == net_hits(pkg.dx)
             sys == sys_hits(pkg.dx)
             urls == Range(pkg.urls)
             ips == Range(pkg.ips)
         IN  [kind |-> "record",
              network_calls |-> sorted(urls),
              network_ips |-> sorted(ips),
              system_calls |-> IF sys # {} THEN sorted(sys) ELSE sorted(net),
              sms_used |-> \E s \in net \cup sys \cup Range(SUSPICIOUS_API_SUBSTRINGS) :
                              In("SmsManager", s),
              n_network_calls |-> Cardinality(urls),
              n_system_indicators |-> len_or(Cardinality(sys), Cardinality(net))]

\* dict.get(key, default) on what dynamic_features returned: the error dict
\* has none of the record's keys.
get_network_calls(logs) == IF logs.kind = "record" THEN logs.network_calls ELSE <<>>
get_system_calls(logs) == IF logs.kind = "record" THEN logs.system_calls ELSE <<>>
get_sms_used(logs) == IF logs.kind = "record" THEN logs.sms_used ELSE FALSE
get_n_system_indicators(logs) ==
    IF logs.kind = "record" THEN logs.n_system_indicators ELSE 0

determine_action(verdict) ==
    CASE verdict = "benign" -> "Safe to use"
      [] verdict = "adware" -> "Contains ads or trackers - use caution"
      [] verdict = "spyware" -> "Spyware detected - avoid installation"
      [] verdict = "trojan" -> "Trojan behaviour - uninstall or block immediately"
      [] verdict = "ransomware" -> "Ransomware detected - do not install and isolate device"
      [] OTHER -> "Unknown - manual review recommended"

(***************************************************************************)
(* Results.  status "ok": a returned body; "error": an HTTPException (or,  *)
(* for the library functions, a raised exception), which carries no        *)
(* verdict, score or action.                                               *)
(***************************************************************************)
NoResult ==
    [status |-> "none", code |-> 0, analysis_type |-> "none", policy |-> "none",
     verdict |-> "none", risk_score |-> 0, recommended_action |-> "none",
     features |-> NoFeatures, logs |-> NoLogs, count |-> 0]

Failure(analysis_type, code) ==
    [NoResult EXCEPT !.status = "error", !.code = code, !.analysis_type = analysis_type]

Body(analysis_type, policy, verdict, risk_score, action, features, logs, count) ==
    [status |-> "ok", code |-> 200, analysis_type |-> analysis_type, policy |-> policy,
     verdict |-> verdict, risk_score |-> risk_score, recommended_action |-> action,
     features |-> features, logs |-> logs, count |-> count]

(***************************************************************************)
(* Policy A: analyzer.hybrid_features                                      *)
(***************************************************************************)
bucket_verdict(suspicious_count) ==
    IF suspicious_count <= 2 THEN "benign"
    ELSE IF suspicious_count <= 4 THEN "adware"
    ELSE IF suspicious_count <= 6 THEN "spyware"
    ELSE IF suspicious_count <= 9 THEN "trojan"
    ELSE "ransomware"

bucket_score(suspicious_count) ==
    IF suspicious_count <= 2 THEN Pct(10)
    ELSE IF suspicious_count <= 4 THEN Pct(35)
    ELSE IF suspicious_count <= 6 THEN Pct(55)
    ELSE IF suspicious_count <= 9 THEN Pct(75)
    ELSE Pct(90)

hybrid_features(pkg) ==
    IF ~pkg.valid
    THEN Failure("hybrid_features", 0)
    ELSE LET static == static_features(pkg)
             dynamic == dynamic_features(pkg)
             suspicious_count ==
                 Len(static.suspicious_apis) + get_n_system_indicators(dynamic)
             verdict == bucket_verdict(suspicious_count)
         IN  Body("hybrid_features", "A", verdict, bucket_score(suspicious_count),
                  determine_action(verdict), static, dynamic, suspicious_count)

(***************************************************************************)
(* Policy B: the endpoints of app/main.py                                  *)
(***************************************************************************)
DANGER_WORDS == <<"SMS", "CALL", "INTERNET", "RECORD_AUDIO", "CAMERA">>

\* sum(1 for p in permissions if any(x in p for x in [...]))
n_dangerous_perms(permissions) ==
    Cardinality({i \in 1..Len(permissions) :
                    \E x \in Range(DANGER_WORDS) : In(x, permissions[i])})

\* The chain with inclusive bounds, as Policy A's buckets have them.
verdict4_inclusive(risk_score) ==
    IF risk_score <= Pct(20) THEN "benign"
    ELSE IF risk_score <= Pct(40) THEN "adware"
    ELSE IF risk_score <= Pct(60) THEN "spyware"
    ELSE IF risk_score <= Pct(80) THEN "trojan"
    ELSE "ransomware"

\* The if/elif chain shared by the three endpoints.
verdict4(risk_score) ==
    IF risk_score < Pct(20) THEN "benign"
    ELSE IF risk_score < Pct(40) THEN "adware"
    ELSE IF risk_score < Pct(60) THEN "spyware"
    ELSE IF risk_score < Pct(80) THEN "trojan"
    ELSE "ransomware"

static_risk(feats) ==
    Min(One, Pct(20) * n_dangerous_perms(feats.permissions)
             + Pct(15) * Len(feats.suspicious_apis))

\* The try block of analyze_static.
analyze_static(pkg) ==
    IF ~pkg.valid
    THEN Failure("static", 500)
    ELSE LET feats == static_features(pkg)
             risk_score == static_risk(feats)
             verdict == verdict4(risk_score)
         IN  Body("static", "B", verdict, risk_score, determine_action(verdict),
                  feats, NoLogs, n_dangerous_perms(feats.permissions))

dynamic_risk(dyn_logs) ==
    Min(One, Pct(20) * Len(get_network_calls(dyn_logs))
             + Pct(20) * Len(get_system_calls(dyn_logs))
             + (IF get_sms_used(dyn_logs) THEN Pct(30) ELSE 0))

\* The try block of analyze_dynamic: dynamic_features never raises on a
\* container it cannot open, so the block goes on with the error dict.
analyze_dynamic(pkg) ==
    LET dyn_logs == dynamic_features(pkg)
        risk_score == dynamic_risk(dyn_logs)
        verdict == verdict4(risk_score)
    IN  Body("dynamic", "B", verdict, risk_score, determine_action(verdict),
             NoFeatures, dyn_logs, 0)

heuristic_score(feats, dyn_logs) ==
    Min(One, Pct(15) * n_dangerous_perms(feats.permissions)
             + Pct(15) * Len(feats.suspicious_apis)
             + Pct(20) * Len(get_network_calls(dyn_logs))
             + Pct(20) * Len(get_system_calls(dyn_logs))
             + (IF get_sms_used(dyn_logs) THEN Pct(20) ELSE 0))

(***************************************************************************)
(* app/ml_model.py: the classifier's feature vector                        *)
(***************************************************************************)
DANGEROUS_PERMISSIONS ==
    { "android.permission.SEND_SMS", "android.permission.RECEIVE_SMS",
      "android.permission.READ_SMS", "android.permission.CALL_PHONE",
      "android.permission.READ_CONTACTS", "android.permission.WRITE_CONTACTS",
      "android.permission.READ_CALL_LOG", "android.permission.WRITE_CALL_LOG",
      "android.permission.RECEIVE_BOOT_COMPLETED", "android.permission.SYSTEM_ALERT_WINDOW",
      "android.permission.REQUEST_INSTALL_PACKAGES", "android.permission.WRITE_SETTINGS",
      "android.permission.READ_PHONE_STATE", "android.permission.RECORD_AUDIO",
      "android.permission.CAMERA" }

suspicious_sys == {"execve", "chmod", "chown", "ptrace", "kill"}

has_boot(intents) == \E i \in 1..Len(intents) : In("BOOT_COMPLETED", intents[i])

\* extract_vector with n_sys = len(sys_calls), every logged call counted.
extract_vector_counting_all(static_feats, dynamic_metrics) ==
    << Cardinality(Range(static_feats.permissions) \cap DANGEROUS_PERMISSIONS),
       Len(static_feats.suspicious_apis),
       Len(get_network_calls(dynamic_metrics)),
       Len(get_system_calls(dynamic_metrics)),
       IF has_boot(static_feats.intents) THEN 1 ELSE 0 >>

extract_vector(static_feats, dynamic_metrics) ==
    << Cardinality(Range(static_feats.permissions) \cap DANGEROUS_PERMISSIONS),
       Len(static_feats.suspicious_apis),
       Len(get_network_calls(dynamic_metrics)),
       Cardinality(Range(get_system_calls(dynamic_metrics)) \cap suspicious_sys),
       IF has_boot(static_feats.intents) THEN 1 ELSE 0 >>

\* One invocation of MODEL.predict_proba([vec])[0][1]: it raises, or it
\* returns a probability.
NoCall == [called |-> FALSE, vec |-> <<>>, raised |-> FALSE, prob |-> 0]
Call(vec, raised, prob) == [called |-> TRUE, vec |-> vec, raised |-> raised, prob |-> prob]

\* The heuristic score kept although a classifier answered.
hybrid_risk_heuristic_only(model, answer, heuristic) == heuristic

\* `if MODEL: ... risk_score = prob  else: risk_score = heuristic_score`
hybrid_risk(model, answer, heuristic) ==
    IF model # "None" THEN answer.prob ELSE heuristic

\* The try block of analyze_hybrid.  answer is what the classifier does if
\* it is invoked.
analyze_hybrid(pkg, model, answer) ==
    IF ~pkg.valid
    THEN Failure("hybrid", 500)
    ELSE IF model # "None" /\ answer.raised
    THEN Failure("hybrid", 500)
    ELSE LET feats == static_features(pkg)
             dyn_logs == dynamic_features(pkg)
             risk_score == hybrid_risk(model, answer, heuristic_score(feats, dyn_logs))
             verdict == verdict4(risk_score)
         IN  Body("hybrid", "B", verdict, risk_score, determine_action(verdict),
                  feats, dyn_logs, n_dangerous_perms(feats.permissions))

\* The classifier invocation analyze_hybrid makes, if any.
hybrid_call(pkg, model, answer) ==
    IF pkg.valid /\ model # "None"
    THEN Call(extract_vector(static_features(pkg), dynamic_features(pkg)),
              answer.raised, IF answer.raised THEN 0 ELSE answer.prob)
    ELSE NoCall

(***************************************************************************)
(* Policy C: app/risk_model.py                                             *)
(***************************************************************************)
SUSPICIOUS_APIS ==
    << "java/lang/Runtime;->exec",
       "dalvik/system/DexClassLoader;-><init>",
       "java/lang/reflect/Method;->invoke",
       "android/telephony/SmsManager;->sendTextMessage",
       "javax/crypto/Cipher;->init" >>

NETWORK_INDICATORS == <<"http://", "https://", "ftp://">>

\* The scan of risk_model.extract_static_features has no try around
\* get_xref_to(): the first raise, of a method or of a class, ends it.
RECURSIVE rm_method_scan(_)
rm_method_scan(methods) ==
    IF methods = <<>> THEN [hits |-> {}, aborted |-> FALSE]
    ELSE LET m == Head(methods)
             rest == rm_method_scan(Tail(methods))
         IN  IF m.raises
             THEN [hits |-> method_hits(m, SUSPICIOUS_APIS), aborted |-> TRUE]
             ELSE [hits |-> method_hits(m, SUSPICIOUS_APIS) \cup rest.hits,
                   aborted |-> rest.aborted]

RECURSIVE rm_scan(_)
rm_scan(classes) ==
    IF classes = <<>> THEN {}
    ELSE LET cls == Head(classes)
             r == rm_method_scan(cls.methods)
         IN  r.hits \cup
             (IF r.aborted \/ cls.raises THEN {} ELSE rm_scan(Tail(classes)))

rm_extract_static_features(pkg) ==
    [present |-> TRUE,
     permissions |-> sorted_set(pkg.permissions),
     intents |-> sorted_set(pkg.filter_keys),
     suspicious_apis |-> sorted(rm_scan(pkg.dx))]

clamp01(x) == Max(0, Min(One, x))

\* ">= hi -> malicious, >= lo -> suspicious, else benign"
verdict3(risk, hi, lo) ==
    IF risk >= hi THEN "malicious" ELSE IF risk >= lo THEN "suspicious" ELSE "benign"

\* 0.5 * n_danger/15 + 0.3 * |apis|/5 + 0.2 * intent_score
static_score_risk(features) ==
    LET n_danger == Cardinality(Range(features.permissions) \cap DANGEROUS_PERMISSIONS)
        n_apis == Cardinality(Range(features.suspicious_apis))
    IN  clamp01((Pct(50) * n_danger) \div Max(1, Cardinality(DANGEROUS_PERMISSIONS))
                + (Pct(30) * n_apis) \div Max(1, Len(SUSPICIOUS_APIS))
                + (IF has_boot(features.intents) THEN Pct(20) ELSE 0))

static_score(features) ==
    LET risk == static_score_risk(features)
    IN  [risk |-> risk, verdict |-> verdict3(risk, Pct(70), Pct(40))]

(***************************************************************************)
(* The logs argument of the risk model: None, or a dict; a dict with no    *)
(* key ({}) is falsy, a dict holding its two lists is truthy even when     *)
(* both are empty.                                                         *)
(***************************************************************************)
Logs(given, keys, network_calls, system_calls) ==
    [given |-> given, keys |-> keys, network_calls |-> network_calls,
     system_calls |-> system_calls]

LogsNone == Logs(FALSE, FALSE, <<>>, <<>>)
LogsEmptyDict == Logs(TRUE, FALSE, <<>>, <<>>)
\* `if logs is not None`
truthy_not_none(logs) == logs.given

\* `if logs`
truthy(logs) == logs.given /\ logs.keys

\* 0.6 * min(1, n_sys_hits/3) + 0.4 * min(1, n_net_hits/5)
dynamic_score_risk(logs) ==
    LET net == logs.network_calls
        n_net_hits == Cardinality({i \in 1..Len(net) :
                          \E ind \in Range(NETWORK_INDICATORS) : In(ind, net[i])})
        n_sys_hits == Cardinality(Range(logs.system_calls) \cap suspicious_sys)
    IN  clamp01(Min(Pct(60), (Pct(60) * n_sys_hits) \div 3)
                + Min(Pct(40), (Pct(40) * n_net_hits) \div 5))

dynamic_score(logs) ==
    LET risk == dynamic_score_risk(logs)
    IN  [risk |-> risk, verdict |-> verdict3(risk, Pct(65), Pct(35))]

hybrid_score(features, logs) ==
    LET sr == static_score(features).risk
        risk == IF truthy(logs) THEN (sr + dynamic_score(logs).risk) \div 2 ELSE sr
    IN  [risk |-> risk, verdict |-> verdict3(risk, Pct(70), Pct(40))]

\* risk_model.analyze(apk_path, mode, logs)
analyze(pkg, mode, logs) ==
    IF ~pkg.valid
    THEN Failure(mode, 0)
    ELSE LET features == rm_extract_static_features(pkg)
             r == CASE mode = "static" -> static_score(features)
                    [] mode = "dynamic" ->
                         dynamic_score(IF truthy(logs) THEN logs
                                       ELSE Logs(TRUE, TRUE, <<>>, <<>>))
                    [] OTHER -> hybrid_score(features, logs)
         IN  Body(mode, "C", r.verdict, r.risk, "none",
                  IF mode = "dynamic" THEN NoFeatures ELSE features, NoLogs, 0)

(***************************************************************************)
(* Inputs                                                                  *)
(***************************************************************************)
SeqsUpTo(S, n) == UNION {[1..k -> S] : k \in 0..n}

PERMISSIONS ==
    {"android.permission.SEND_SMS", "android.permission.READ_CONTACTS",
     "android.permission.INTERNET"}
INTENT_KEYS == {"android.intent.action.BOOT_COMPLETED", "android.intent.action.MAIN"}
URLS == {"http://a.example/x", "https://b.example/y"}
IPS == {"10.0.0.1", "192.168.0.1"}

\* A method whose cross-references cannot be resolved, then one that calls
\* Runtime.exec.
ClsExecLater ==
    Class(<<Method(<<>>, TRUE), Method(<<"Ljava/lang/Runtime;->exec">>, FALSE)>>, FALSE)
\* A class whose methods cannot be enumerated.
ClsBroken == Class(<<>>, TRUE)
\* The four HTTP-client calls.
ClsNet ==
    Class(<<Method(<<"Ljava/net/HttpURLConnection;->connect",
                     "Ljava/net/URL;->openConnection",
                     "Ljava/lang/Object;-><init>">>, FALSE),
            Method(<<"Lokhttp3/OkHttpClient;->newCall",
                     "Lorg/apache/http/client/HttpClient;->execute">>, FALSE)>>, FALSE)
\* The five other calls, in one method.
ClsSys ==
    Class(<<Method(<<"Ljavax/crypto/Cipher;->init",
                     "Ldalvik/system/DexClassLoader;-><init>",
                     "Ljava/lang/reflect/Method;->invoke",
                     "Landroid/telephony/SmsManager;->sendTextMessage",
                     "Ljava/lang/Runtime;->exec">>, FALSE)>>, FALSE)
\* The same call twice, then a raise of get_xref_to().
ClsSms ==
    Class(<<Method(<<"Landroid/telephony/SmsManager;->sendTextMessage",
                     "Landroid/telephony/SmsManager;->sendTextMessage">>, TRUE)>>, FALSE)
ClsLoader ==
    Class(<<Method(<<"Ljava/lang/reflect/Method;->invoke",
                     "Ljava/lang/Runtime;->exec">>, FALSE),
            Method(<<"Ldalvik/system/DexClassLoader;-><init>">>, FALSE)>>, FALSE)

CLASSES == {ClsExecLater, ClsBroken, ClsNet, ClsSys, ClsSms, ClsLoader}

\* The packages of at most MaxItems items, and one container that cannot be
\* opened.
Packages ==
    {CorruptPackage} \cup
    UNION {UNION {UNION {UNION {
        {Package(TRUE, p, k, r, dx, u, i) :
            r \in BOOLEAN,
            i \in SeqsUpTo(IPS, MaxItems - Len(p) - Len(k) - Len(dx) - Len(u))}
        : u \in SeqsUpTo(URLS, MaxItems - Len(p) - Len(k) - Len(dx))}
        : dx \in SeqsUpTo(CLASSES, MaxItems - Len(p) - Len(k))}
        : k \in SeqsUpTo(INTENT_KEYS, MaxItems - Len(p))}
        : p \in SeqsUpTo(PERMISSIONS, MaxItems)}

\* What a loaded classifier may answer: a raise, or a probability.
Probabilities == {0, Pct(19), Pct(20), Pct(50), Pct(80), One}
Answers ==
    {[raised |-> TRUE, prob |-> 0]} \cup {[raised |-> FALSE, prob |-> p] : p \in Probabilities}

\* The logs handed to risk_model.analyze.
LOGS ==
    { LogsNone,
      LogsEmptyDict,
      Logs(TRUE, TRUE, <<>>, <<>>),
      Logs(TRUE, TRUE, <<"http://a.example/x">>, <<"execve", "ptrace">>),
      Logs(TRUE, TRUE, <<"https://b.example/y", "10.0.0.1">>, <<"java/lang/Runtime;->exec">>),
      Logs(TRUE, TRUE,
           <<"http://a.example/x", "https://b.example/y", "http://a.example/x",
             "https://b.example/y", "http://a.example/x">>,
           <<"execve", "chmod", "kill", "execve">>) }

(***************************************************************************)
(* State                                                                   *)
(***************************************************************************)
VARIABLES
    artifact,   \* model.pkl on disk: "absent", "good", or "corrupt" (joblib.load raises)
    proc,       \* the process: "starting", "running", "crashed"
    MODEL,      \* main.MODEL: "None" or "classifier"
    pc,         \* the operation in progress: "idle", "accepted", "entered", "written",
                \* "exiting", "done"
    op,         \* the operation: an endpoint or a library function
    tmp,        \* the TempFile's file: "none"; "exists"; "deleted"; "leaked", when
                \* unlink raised and the file is still there
    pkg,        \* the package the operation parsed
    arg_logs,   \* the logs argument of risk_model.analyze
    call,       \* the classifier invocation of the operation
    result      \* what the operation returns or raises

vars == <<artifact, proc, MODEL, pc, op, tmp, pkg, arg_logs, call, result>>

Init ==
    /\ artifact \in {"absent", "good", "corrupt"}
    /\ proc = "starting"
    /\ MODEL = "None"
    /\ pc = "idle"
    /\ op = "none"
    /\ tmp = "none"
    /\ pkg = NoPackage
    /\ arg_logs = LogsNone
    /\ call = NoCall
    /\ result = NoResult

\* ml_model.load_model
load_model_raises == artifact = "corrupt"
load_model == IF artifact = "absent" THEN "None" ELSE "classifier"

\* Import of app.main: MODEL = load_model() if model_exists() else None.
\* Nothing catches a raise of joblib.load: the import, and the process, fail.
Startup ==
    /\ proc = "starting"
    /\ IF artifact # "absent" /\ load_model_raises
       THEN proc' = "crashed" /\ MODEL' = MODEL
       ELSE proc' = "running" /\ MODEL' = load_model
    /\ UNCHANGED <<artifact, pc, op, tmp, pkg, arg_logs, call, result>>

Ready == proc = "running" /\ pc = "idle"

\* The head of an endpoint: the two 400 checks come before the TempFile.
Begin(endpoint, is_apk, has_content) ==
    /\ Ready
    /\ op' = endpoint
    /\ tmp' = "none"
    /\ pkg' = NoPackage
    /\ arg_logs' = LogsNone
    /\ call' = NoCall
    /\ IF is_apk /\ has_content
       THEN pc' = "accepted" /\ result' = NoResult
       ELSE pc' = "done" /\ result' = Failure(endpoint, 400)
    /\ UNCHANGED <<artifact, proc, MODEL>>

\* TempFile.__enter__: tempfile.mkstemp creates the file.
Enter ==
    /\ pc = "accepted"
    /\ tmp' = "exists"
    /\ pc' = "entered"
    /\ UNCHANGED <<artifact, proc, MODEL, op, pkg, arg_logs, call, result>>

\* tmp.write_bytes(content), inside the with block and outside the try: a
\* raise leaves the block through __exit__ and ends the request in an error.
Write(ok) ==
    /\ pc = "entered"
    /\ IF ok
       THEN pc' = "written" /\ result' = result
       ELSE pc' = "exiting" /\ result' = Failure(op, 500)
    /\ UNCHANGED <<artifact, proc, MODEL, op, tmp, pkg, arg_logs, call>>

AnalyzeStatic ==
    /\ pc = "written" /\ op = "static"
    /\ \E p \in Packages :
          /\ pkg' = p
          /\ result' = analyze_static(p)
    /\ pc' = "exiting"
    /\ UNCHANGED <<artifact, proc, MODEL, op, tmp, arg_logs, call>>

AnalyzeDynamic ==
    /\ pc = "written" /\ op = "dynamic"
    /\ \E p \in Packages :
          /\ pkg' = p
          /\ result' = analyze_dynamic(p)
    /\ pc' = "exiting"
    /\ UNCHANGED <<artifact, proc, MODEL, op, tmp, arg_logs, call>>

AnalyzeHybrid ==
    /\ pc = "written" /\ op = "hybrid"
    /\ \E p \in Packages, answer \in Answers :
          /\ pkg' = p
          /\ call' = hybrid_call(p, MODEL, answer)
          /\ result' = analyze_hybrid(p, MODEL, answer)
    /\ pc' = "exiting"
    /\ UNCHANGED <<artifact, proc, MODEL, op, tmp, arg_logs>>

\* An __exit__ that leaves the file alone.
ExitWithoutUnlink(unlink_ok) ==
    /\ pc = "exiting"
    /\ pc' = "done"
    /\ UNCHANGED <<artifact, proc, MODEL, op, tmp, pkg, arg_logs, call, result>>

\* TempFile.__exit__: unlink if the file exists; a raise of unlink is
\* swallowed and leaves the file.  Then the body is returned, or the
\* exception goes on to the caller.
Exit(unlink_ok) ==
    /\ pc = "exiting"
    /\ tmp' = IF tmp = "exists" THEN (IF unlink_ok THEN "deleted" ELSE "leaked") ELSE tmp
    /\ pc' = "done"
    /\ UNCHANGED <<artifact, proc, MODEL, op, pkg, arg_logs, call, result>>

\* analyzer.hybrid_features(apk_path), called on a file of the caller.
HybridFeatures ==
    /\ Ready
    /\ \E p \in Packages :
          /\ pkg' = p
          /\ result' = hybrid_features(p)
    /\ op' = "hybrid_features"
    /\ pc' = "done"
    /\ tmp' = "none" /\ arg_logs' = LogsNone /\ call' = NoCall
    /\ UNCHANGED <<artifact, proc, MODEL>>

\* risk_model.analyze(apk_path, mode, logs), called on a file of the caller.
RiskAnalyze ==
    /\ Ready
    /\ \E p \in Packages, mode \in {"static", "dynamic", "hybrid"}, logs \in LOGS :
          /\ pkg' = p
          /\ arg_logs' = logs
          /\ result' = analyze(p, mode, logs)
    /\ op' = "risk_model"
    /\ pc' = "done"
    /\ tmp' = "none" /\ call' = NoCall
    /\ UNCHANGED <<artifact, proc, MODEL>>

\* The response has gone to the caller: nothing of the request is kept.
Return ==
    /\ pc = "done"
    /\ pc' = "idle"
    /\ op' = "none"
    /\ tmp' = "none"
    /\ pkg' = NoPackage
    /\ arg_logs' = LogsNone
    /\ call' = NoCall
    /\ result' = NoResult
    /\ UNCHANGED <<artifact, proc, MODEL>>

Next ==
    \/ Startup
    \/ \E endpoint \in {"static", "dynamic", "hybrid"}, is_apk, has_content \in BOOLEAN :
          Begin(endpoint, is_apk, has_content)
    \/ Enter
    \/ \E ok \in BOOLEAN : Write(ok)
    \/ AnalyzeStatic
    \/ AnalyzeDynamic
    \/ AnalyzeHybrid
    \/ \E unlink_ok \in BOOLEAN : Exit(unlink_ok)
    \/ HybridFeatures
    \/ RiskAnalyze
    \/ Return

Spec == Init /\ [][Next]_vars

(***************************************************************************)
(* Properties                                                              *)
(***************************************************************************)
Endpoints == {"static", "dynamic", "hybrid"}
Returned == result.status = "ok"
FileExists == tmp \in {"exists", "leaked"}

\* C1: on each of the three endpoints, a container AnalyzeAPK cannot open
\* ends the request in a failure; no verdict, risk score or recommended
\* action is returned for it.
C1_CorruptPackageFails ==
    (op \in Endpoints /\ pkg.given /\ ~pkg.valid) =>
        /\ result.status = "error"
        /\ result.verdict = "none"
        /\ result.recommended_action = "none"

\* The threshold tables of the three policies, as the specification states
\* them.
TableA(risk) ==
    CASE risk = Pct(10) -> "benign"
      [] risk = Pct(35) -> "adware"
      [] risk = Pct(55) -> "spyware"
      [] risk = Pct(75) -> "trojan"
      [] risk = Pct(90) -> "ransomware"
      [] OTHER -> "no label"

TableB(risk) ==
    CASE risk < Pct(20) -> "benign"
      [] risk >= Pct(20) /\ risk < Pct(40) -> "adware"
      [] risk >= Pct(40) /\ risk < Pct(60) -> "spyware"
      [] risk >= Pct(60) /\ risk < Pct(80) -> "trojan"
      [] OTHER -> "ransomware"

TableC(analysis_type, risk) ==
    LET hi == IF analysis_type = "dynamic" THEN Pct(65) ELSE Pct(70)
        lo == IF analysis_type = "dynamic" THEN Pct(35) ELSE Pct(40)
    IN  CASE risk >= hi -> "malicious"
          [] risk < hi /\ risk >= lo -> "suspicious"
          [] OTHER -> "benign"

TableLabel(r) ==
    CASE r.policy = "A" -> TableA(r.risk_score)
      [] r.policy = "B" -> TableB(r.risk_score)
      [] OTHER -> TableC(r.analysis_type, r.risk_score)

\* C2: every returned result, of the three endpoints, of hybrid_features and
\* of the risk model, has 0 <= risk_score <= 1 and the verdict its policy's
\* threshold table gives for that risk_score.
C2_ScoreInRangeAndVerdictFromTable ==
    Returned =>
        /\ 0 <= result.risk_score /\ result.risk_score <= One
        /\ result.verdict = TableLabel(result)

\* A static-endpoint result whose weighted sum was clamped to 1.0.
C2_Witness ==
    /\ Returned /\ op = "static"
    /\ result.risk_score = One
    /\ Pct(20) * result.count + Pct(15) * Len(result.features.suspicious_apis) > One
    /\ result.verdict = "ransomware"

BucketA(count) ==
    CASE count <= 2 -> <<"benign", Pct(10)>>
      [] count > 2 /\ count <= 4 -> <<"adware", Pct(35)>>
      [] count > 4 /\ count <= 6 -> <<"spyware", Pct(55)>>
      [] count > 6 /\ count <= 9 -> <<"trojan", Pct(75)>>
      [] OTHER -> <<"ransomware", Pct(90)>>

\* C3: in hybrid_features the bucketed count is the number of suspicious
\* APIs of the static record plus the number of matched signatures
\* classified system-related, and the result is that count's bucket.
C3_CountIsStaticPlusSystemHits ==
    (op = "hybrid_features" /\ Returned) =>
        LET count == Len(result.features.suspicious_apis) + Cardinality(sys_hits(pkg.dx))
        IN  /\ result.count = count
            /\ <<result.verdict, result.risk_score>> = BucketA(count)

CatalogCount(permissions) ==
    Cardinality(Range(permissions) \cap DANGEROUS_PERMISSIONS)

\* C4: on the static and hybrid endpoints the dangerous-permission count
\* that enters the weighted score is the number of the package's
\* permissions that are in the 15-entry catalog; one catalog permission and
\* no suspicious API give static score 0.20 and verdict adware.
C4_DangerousCountIsCatalogCount ==
    (op \in {"static", "hybrid"} /\ Returned) =>
        /\ result.count = CatalogCount(pkg.permissions)
        /\ (op = "static" /\ CatalogCount(pkg.permissions) = 1
              /\ result.features.suspicious_apis = <<>>)
           => (result.risk_score = Pct(20) /\ result.verdict = "adware")

\* C5: on the hybrid endpoint, with a classifier loaded the request invokes
\* it, fails if the invocation raises, and otherwise returns its probability
\* as risk_score with the verdict of the 4-way thresholds; the heuristic
\* score is returned only when no classifier is loaded.
C5_ClassifierOverridesHeuristic ==
    (op = "hybrid" /\ pkg.given /\ pkg.valid) =>
        LET heuristic ==
                heuristic_score(static_features(pkg), dynamic_features(pkg))
        IN  /\ MODEL # "None" =>
                /\ call.called
                /\ call.raised => result.status = "error"
                /\ ~call.raised =>
                      /\ Returned
                      /\ result.risk_score = call.prob
                      /\ result.verdict = TableB(call.prob)
            /\ MODEL = "None" =>
                /\ ~call.called
                /\ Returned
                /\ result.risk_score = heuristic

\* A hybrid result that carries the classifier's probability where the
\* heuristic score is another number.
C5_Witness ==
    /\ op = "hybrid" /\ Returned
    /\ MODEL = "classifier" /\ call.called /\ ~call.raised
    /\ result.risk_score = call.prob
    /\ call.prob # heuristic_score(static_features(pkg), dynamic_features(pkg))
    /\ result.verdict = "benign"
    /\ heuristic_score(static_features(pkg), dynamic_features(pkg)) = One

\* C6 as stated: once a request that acquired temporary storage has ended,
\* the file no longer exists, on every exit path.
C6_FileGoneOnEveryExit ==
    (op \in Endpoints /\ pc = "done" /\ tmp # "none") => ~FileExists

\* C6 amended: the file exists before parsing starts; on every exit path the
\* request ends only after __exit__ tried to delete the file, which is then
\* gone unless unlink itself raised; and __exit__, whether unlink raised or
\* not, leaves the outcome of the request as it was.
C6_ReleaseAttemptedOnEveryExit ==
    /\ [](op \in Endpoints =>
            /\ pkg.given => tmp # "none"
            /\ pc = "written" => tmp = "exists"
            /\ (pc = "done" /\ result.code # 400) => tmp \in {"deleted", "leaked"})
    /\ [][pc = "exiting" => result' = result]_vars

\* A request that ended in a parsing failure with its file deleted.
C6_Witness ==
    /\ op \in Endpoints /\ pc = "done"
    /\ pkg.given /\ ~pkg.valid /\ result.status = "error"
    /\ tmp = "deleted"

Ascending(s) == \A i \in 1..(Len(s) - 1) : LexLess(Chars(s[i]), Chars(s[i + 1]))

\* C7: the permissions, intents and suspicious_apis of every static record
\* and the network_calls and network_ips of every dynamic record are in
\* ascending order without a duplicate.
C7_CollectionsSortedAndUnique ==
    /\ result.features.present =>
          /\ Ascending(result.features.permissions)
          /\ Ascending(result.features.intents)
          /\ Ascending(result.features.suspicious_apis)
    /\ result.logs.kind = "record" =>
          /\ Ascending(result.logs.network_calls)
          /\ Ascending(result.logs.network_ips)

\* A risk-model record made from a permission met twice.
C7_Witness ==
    /\ op = "risk_model" /\ result.features.present
    /\ Len(pkg.permissions) = 2 /\ pkg.permissions[1] = pkg.permissions[2]
    /\ Len(result.features.permissions) = 1

\* C8: when the artifact exists and loading it raises, the process still
\* starts and runs without a classifier; and no request changes the MODEL
\* that startup set.
C8_LoadFailureDegradesToHeuristic ==
    /\ []((artifact = "corrupt" /\ proc # "starting") =>
             (proc = "running" /\ MODEL = "None"))
    /\ [][proc # "starting" => MODEL' = MODEL]_vars

\* The needles a scan that skipped only the raising methods and classes
\* would hold at least: those of every call of every method that does not
\* raise, in every class that does not raise.
sound_hits(classes, table) ==
    UNION {UNION {method_hits(classes[c].methods[m], table) :
                    m \in {k \in 1..Len(classes[c].methods) :
                              ~classes[c].methods[k].raises}} :
             c \in {k \in 1..Len(classes) : ~classes[k].raises}}

\* C9: a raise while resolving one method's cross-references or while
\* enumerating one class's methods skips only that method or class: the
\* needles matched in every other method and class are in the result.
C9_ScanSkipsOnlyTheFailingPart ==
    /\ (op \in {"static", "hybrid", "hybrid_features"} /\ result.features.present) =>
          sound_hits(pkg.dx, SUSPICIOUS_API_SUBSTRINGS)
              \subseteq Range(result.features.suspicious_apis)
    /\ (op \in {"dynamic", "hybrid", "hybrid_features"} /\ result.logs.kind = "record") =>
          sound_hits(pkg.dx, SUSPICIOUS_API_SUBSTRINGS)
              \subseteq net_hits(pkg.dx) \cup sys_hits(pkg.dx)

\* C10: the dynamic classification splits the set the static scan returns
\* into two disjoint subsets, and system_calls and n_system_indicators of
\* the dynamic record hold system-related signatures only.
C10_SystemCallsAreSystemHits ==
    (pkg.given /\ pkg.valid /\ result.logs.kind = "record") =>
        /\ net_hits(pkg.dx) \cup sys_hits(pkg.dx) = Range(match_suspicious_apis(pkg.dx))
        /\ net_hits(pkg.dx) \cap sys_hits(pkg.dx) = {}
        /\ Range(result.logs.system_calls) \subseteq sys_hits(pkg.dx)
        /\ \A s \in Range(result.logs.system_calls) : ~is_network_needle(s)
        /\ result.logs.n_system_indicators = Cardinality(sys_hits(pkg.dx))

\* C11: in static_features a raise at any point while the receiver intent
\* filters are read, before the first filter or after some were read, leaves
\* a record with its permissions and suspicious APIs and with no intents.
C11_IntentFailureGivesEmptyIntents ==
    (op \in {"static", "hybrid", "hybrid_features"} /\ result.features.present
        /\ pkg.filters_raise) =>
        /\ Range(result.features.permissions) = Range(pkg.permissions)
        /\ Range(result.features.suspicious_apis)
              = scan_hits(pkg.dx, SUSPICIOUS_API_SUBSTRINGS)
        /\ result.features.intents = <<>>

\* The two sub-scores of Policy C, as the specification states them.
StaticSubScore(features) ==
    LET n_danger == Cardinality(Range(features.permissions) \cap DANGEROUS_PERMISSIONS)
        n_api == Len(features.suspicious_apis)
        boot == \E k \in Range(features.intents) : In("BOOT_COMPLETED", k)
        sum == (One * n_danger) \div 30 + (3 * One * n_api) \div 50
               + (IF boot THEN One \div 5 ELSE 0)
    IN  IF sum > One THEN One ELSE sum

DynamicSubScore(logs) ==
    LET n_sys == Cardinality({c \in {"execve", "chmod", "chown", "ptrace", "kill"} :
                     \E i \in 1..Len(logs.system_calls) : logs.system_calls[i] = c})
        n_net == Cardinality({i \in 1..Len(logs.network_calls) :
                     \/ In("http://", logs.network_calls[i])
                     \/ In("https://", logs.network_calls[i])
                     \/ In("ftp://", logs.network_calls[i])})
    IN  (3 * One * (IF n_sys > 3 THEN 3 ELSE n_sys)) \div 15
        + (2 * One * (IF n_net > 5 THEN 5 ELSE n_net)) \div 25

HybridCall ==
    op = "risk_model" /\ result.analysis_type = "hybrid" /\ Returned

HybridVerdictFromStaticPair ==
    result.verdict = (IF result.risk_score >= Pct(70) THEN "malicious"
                      ELSE IF result.risk_score >= Pct(40) THEN "suspicious"
                      ELSE "benign")

\* C12 as stated: in hybrid_score the risk is the mean of the two sub-scores
\* for every logs value that is not None, a dict with no entries included,
\* and the static sub-score for None; the verdict is malicious from 0.70,
\* suspicious from 0.40, benign below.
C12_MeanWheneverLogsNotNone ==
    HybridCall =>
        /\ arg_logs.given =>
              2 * result.risk_score
                  = StaticSubScore(result.features) + DynamicSubScore(arg_logs)
        /\ ~arg_logs.given => result.risk_score = StaticSubScore(result.features)
        /\ HybridVerdictFromStaticPair

\* C12 amended: the risk is the mean of the two sub-scores when logs is a
\* dict with at least one key, and the static sub-score when logs is None
\* or the empty dict; the verdict is malicious from 0.70, suspicious from
\* 0.40, benign below.
C12_MeanWhenLogsNonEmpty ==
    HybridCall =>
        /\ (arg_logs.given /\ arg_logs.keys) =>
              2 * result.risk_score
                  = StaticSubScore(result.features) + DynamicSubScore(arg_logs)
        /\ ~(arg_logs.given /\ arg_logs.keys) =>
              result.risk_score = StaticSubScore(result.features)
        /\ HybridVerdictFromStaticPair

\* A hybrid score that is the mean of two different sub-scores.
C12_Witness ==
    /\ HybridCall
    /\ arg_logs.given /\ arg_logs.keys
    /\ StaticSubScore(result.features) > 0
    /\ DynamicSubScore(arg_logs) = One
    /\ result.risk_score > StaticSubScore(result.features)
    /\ result.verdict = "suspicious"

\* C13: for every package whose container parses, dynamic_features sets
\* sms_used whatever signatures were matched, so the dynamic endpoint's
\* score is at least 0.30 and its verdict is never benign.
C13_SmsUsedForEveryParsedPackage ==
    (pkg.given /\ pkg.valid /\ result.logs.kind = "record") =>
        /\ result.logs.sms_used
        /\ (op = "dynamic" /\ Returned) =>
              /\ result.risk_score >= Pct(30)
              /\ result.verdict # "benign"

\* A dynamic result for a package in which nothing was matched or found.
C13_Witness ==
    /\ op = "dynamic" /\ Returned /\ pkg.given /\ pkg.valid
    /\ scan_hits(pkg.dx, SUSPICIOUS_API_SUBSTRINGS) = {}
    /\ result.logs.network_calls = <<>>
    /\ result.logs.sms_used
    /\ result.risk_score = Pct(30)
    /\ result.verdict = "adware"

\* C14: on the hybrid endpoint the fourth component of the vector that
\* extract_vector hands to the classifier is 0 for every package: the
\* system_calls list holds entries of the signature table only, and none of
\* them is in the syscall catalog.
C14_SyscallComponentIsZero ==
    /\ call.called => call.vec[4] = 0
    /\ (op = "hybrid" /\ Returned /\ result.logs.kind = "record") =>
          /\ Range(result.logs.system_calls) \subseteq Range(SUSPICIOUS_API_SUBSTRINGS)
          /\ Range(result.logs.system_calls) \cap suspicious_sys = {}

\* The classifier answered for a package whose system_calls list is full.
C14_Witness ==
    /\ op = "hybrid" /\ Returned /\ call.called /\ ~call.raised
    /\ Len(result.logs.system_calls) = 5
    /\ Len(call.vec) = 5
    /\ call.vec[4] = 0

=============================================================================
